---- MODULE Spec2Model ----
(***************************************************************************)
(* Model of packmanager/query.go: the Query descriptor, its accessors,     *)
(* Fields(), the functional options, NewQuery and Query.String().          *)
(*                                                                         *)
(* Go strings are sequences of one-character strings, so that String()     *)
(* really concatenates.  A slice is a header (backing array, length) and a *)
(* map is a reference into a heap of maps: the options store the header or *)
(* the reference they are given, as the Go assignments do.                 *)
(***************************************************************************)
EXTENDS Naturals, Sequences, FiniteSets, TLC

VARIABLES
    pc,      \* "idle": no NewQuery call is running; "loop": inside NewQuery
    qopts,   \* NewQuery's parameter qopts (a sequence of option values)
    i,       \* position of NewQuery's range loop in qopts
    query,   \* NewQuery's local variable query
    built,   \* the descriptors NewQuery has returned, in order
    held,    \* the option values the caller keeps after the call
    arrays,  \* heap: backing arrays of the type slices
    maps,    \* heap: the auth maps
    ret      \* the last value a method of a built descriptor returned

vars == <<pc, qopts, i, query, built, held, arrays, maps, ret>>

----------------------------------------------------------------------------
(* Bounds of the model *)

MaxOpts == 3          \* options in one NewQuery call
MaxTypes == 2         \* capacity of a backing array of type tags
MaxPermOpts == 3      \* options in a call whose options are then reordered
MaxAliasOpts == 2     \* options in a call whose collections are then changed
MaxQueries == 2       \* NewQuery calls with the same held option values

----------------------------------------------------------------------------
(* Strings *)

S_empty == <<>>
S_foo == <<"f", "o", "o">>
S_libfoo == <<"l", "i", "b", "-", "f", "o", "o">>
S_lib == <<"l", "i", "b">>
S_app == <<"a", "p", "p">>
S_v10 == <<"1", ".", "0">>
S_src == <<"s", "r", "c">>

TypeTags == {S_lib, S_app}
Names == {S_empty, S_foo, S_libfoo}
Versions == {S_empty, S_v10}
Sources == {S_empty, S_src}

----------------------------------------------------------------------------
(* Heap: slices and maps *)

ArrIds == {1, 2}
\* the nil slice: no backing array
NilSlice == [arr |-> 0, len |-> 0]
Slices == {NilSlice} \cup [arr : ArrIds, len : 0..MaxTypes]

\* the elements a slice header s shows under the heap arrs
View(s, arrs) == IF s.arr = 0 THEN <<>> ELSE SubSeq(arrs[s.arr], 1, s.len)

TagAt(a, j) == IF (a + j) % 2 = 0 THEN S_lib ELSE S_app
InitArrays == [a \in ArrIds |-> [j \in 1..MaxTypes |-> TagAt(a, j)]]

\* map references: 0 is the nil map
NilMap == 0
MapIds == {1, 2}
Domains == {"d"}
Creds == {"c1", "c2"}
\* a map is the set of its <<domain, credential>> entries
EmptyMap == {}
InitMaps == [m \in MapIds |-> IF m = 1 THEN EmptyMap ELSE {<<d, "c1">> : d \in Domains}]

----------------------------------------------------------------------------
(* The descriptor *)

ZeroQuery ==
    [source |-> S_empty, types |-> NilSlice, name |-> S_empty,
     version |-> S_empty, useCache |-> FALSE, auths |-> NilMap,
     all |-> FALSE, noManifestPackage |-> FALSE, noOCIPackage |-> FALSE]

FieldNames ==
    {"source", "types", "name", "version", "useCache", "auths", "all",
     "noManifestPackage", "noOCIPackage"}

Source(q) == q.source
Types(q) == q.types
Name(q) == q.name
Version(q) == q.version
UseCache(q) == q.useCache
Auths(q) == q.auths
All(q) == q.all
NoManifestPackage(q) == q.noManifestPackage
NoOCIPackage(q) == q.noOCIPackage

\* Fields() that reports auth only for a mapping with entries
FieldsAuthNonEmpty(q) ==
    [name |-> q.name, version |-> q.version, source |-> q.source,
     types |-> q.types, cache |-> q.useCache,
     auth |-> (IF q.auths = NilMap THEN FALSE ELSE maps[q.auths] # EmptyMap)]

Fields(q) ==
    [name |-> q.name, version |-> q.version, source |-> q.source,
     types |-> q.types, cache |-> q.useCache, auth |-> (q.auths # NilMap)]

----------------------------------------------------------------------------
(* Canonical string rendering *)

RECURSIVE ListJoinStr(_, _)
\* utils.ListJoinStr: the items, each two separated by delim
ListJoinStr(items, delim) ==
    IF Len(items) = 0 THEN <<>>
    ELSE IF Len(items) = 1 THEN items[1]
    ELSE items[1] \o delim \o ListJoinStr(Tail(items), delim)

\* String() that wraps a single type in braces as well
StringBracesOne(cq, arrs) ==
    LET types == View(cq.types, arrs)
        s1 == IF Len(types) >= 1
                THEN <<"{">> \o ListJoinStr(types, <<",", " ">>) \o <<"}", "-">>
                ELSE <<>>
        s2 == IF Len(cq.name) > 0 THEN s1 \o cq.name ELSE s1 \o <<"*">>
        s3 == IF Len(cq.version) > 0 THEN s2 \o <<":">> \o cq.version ELSE s2
    IN  s3

\* String() that puts the source in front of the name
StringWithSource(cq, arrs) ==
    LET types == View(cq.types, arrs)
        s1 == IF Len(types) = 1
                THEN types[1] \o <<"-">>
                ELSE IF Len(types) > 1
                       THEN <<"{">> \o ListJoinStr(types, <<",", " ">>) \o <<"}", "-">>
                       ELSE <<>>
        s2 == IF Len(cq.name) > 0 THEN s1 \o cq.source \o cq.name ELSE s1 \o <<"*">>
        s3 == IF Len(cq.version) > 0 THEN s2 \o <<":">> \o cq.version ELSE s2
    IN  s3

String(cq, arrs) ==
    LET types == View(cq.types, arrs)
        s1 == IF Len(types) = 1
                THEN types[1] \o <<"-">>
                ELSE IF Len(types) > 1
                       THEN <<"{">> \o ListJoinStr(types, <<",", " ">>) \o <<"}", "-">>
                       ELSE <<>>
        s2 == IF Len(cq.name) > 0 THEN s1 \o cq.name ELSE s1 \o <<"*">>
        s3 == IF Len(cq.version) > 0 THEN s2 \o <<":">> \o cq.version ELSE s2
    IN  s3

----------------------------------------------------------------------------
(* Option values: the closure With<X>(arg) is the pair of its name and arg *)

Opt(o, a) == [opt |-> o, arg |-> a]

\* the field an option assigns
Target(o) ==
    CASE o = "WithSource" -> "source"
      [] o = "WithTypes" -> "types"
      [] o = "WithName" -> "name"
      [] o = "WithVersion" -> "version"
      [] o = "WithCache" -> "useCache"
      [] o = "WithAuthConfig" -> "auths"
      [] o = "WithAll" -> "all"
      [] o = "WithNoManifestPackage" -> "noManifestPackage"
      [] o = "WithNoOCIPackage" -> "noOCIPackage"

\* WithTypes(s[:n]...) for the caller's slice over array 1, and WithTypes()
PoolSlices == {NilSlice} \cup {[arr |-> 1, len |-> n] : n \in 0..MaxTypes}

OptionPool ==
    {Opt("WithSource", s) : s \in Sources}
    \cup {Opt("WithTypes", s) : s \in PoolSlices}
    \cup {Opt("WithName", s) : s \in {S_empty, S_foo}}
    \cup {Opt("WithVersion", s) : s \in Versions}
    \cup {Opt("WithCache", b) : b \in BOOLEAN}
    \cup {Opt("WithAuthConfig", m) : m \in {NilMap} \cup MapIds}
    \cup {Opt("WithAll", b) : b \in BOOLEAN}
    \cup {Opt("WithNoManifestPackage", b) : b \in BOOLEAN}
    \cup {Opt("WithNoOCIPackage", b) : b \in BOOLEAN}

SeqsUpTo(S, n) == UNION {[1..m -> S] : m \in 0..n}

----------------------------------------------------------------------------
(* NewQuery *)

Init ==
    /\ pc = "idle"
    /\ qopts = <<>>
    /\ i = 0
    /\ query = ZeroQuery
    /\ built = <<>>
    /\ held = <<>>
    /\ arrays = InitArrays
    /\ maps = InitMaps
    /\ ret = [k |-> 0, m |-> "none", v |-> <<>>]

\* entry of NewQuery(opts...): query := Query{}
NewQueryCall(opts) ==
    /\ pc = "idle"
    /\ pc' = "loop"
    /\ qopts' = opts
    /\ i' = 1
    /\ query' = ZeroQuery
    /\ UNCHANGED <<built, arrays, maps, ret>>

\* the loop body qopt(&query) is about to run the option named o
AtOption(o) == pc = "loop" /\ i <= Len(qopts) /\ qopts[i].opt = o

\* the range loop is over: query holds what NewQuery returns
LoopDone == pc = "loop" /\ i > Len(qopts)

Advance == i' = i + 1 /\ UNCHANGED <<pc, qopts, built, held, ret>>

WithSource ==
    /\ AtOption("WithSource")
    /\ query' = [query EXCEPT !.source = qopts[i].arg]
    /\ Advance /\ UNCHANGED <<arrays, maps>>

\* WithTypes that keeps a list an earlier option stored
WithTypesKeepsFirst ==
    /\ AtOption("WithTypes")
    /\ query' = IF query.types = NilSlice
                  THEN [query EXCEPT !.types = qopts[i].arg]
                  ELSE query
    /\ Advance /\ UNCHANGED <<arrays, maps>>

\* WithTypes that stores a copy of the caller's slice (in the spare array)
WithTypesCopies ==
    /\ AtOption("WithTypes")
    /\ IF qopts[i].arg.arr = 1
         THEN /\ query' = [query EXCEPT !.types = [arr |-> 2, len |-> qopts[i].arg.len]]
              /\ arrays' = [arrays EXCEPT ![2] = arrays[1]]
         ELSE /\ query' = [query EXCEPT !.types = qopts[i].arg]
              /\ arrays' = arrays
    /\ Advance /\ UNCHANGED maps

WithTypes ==
    /\ AtOption("WithTypes")
    /\ query' = [query EXCEPT !.types = qopts[i].arg]
    /\ Advance /\ UNCHANGED <<arrays, maps>>

WithName ==
    /\ AtOption("WithName")
    /\ query' = [query EXCEPT !.name = qopts[i].arg]
    /\ Advance /\ UNCHANGED <<arrays, maps>>

\* a copy of WithName whose assignment was not renamed
WithVersionSetsName ==
    /\ AtOption("WithVersion")
    /\ query' = [query EXCEPT !.name = qopts[i].arg]
    /\ Advance /\ UNCHANGED <<arrays, maps>>

WithVersion ==
    /\ AtOption("WithVersion")
    /\ query' = [query EXCEPT !.version = qopts[i].arg]
    /\ Advance /\ UNCHANGED <<arrays, maps>>

\* a copy of WithAll whose assignment was not renamed
WithCacheSetsAll ==
    /\ AtOption("WithCache")
    /\ query' = [query EXCEPT !.all = qopts[i].arg]
    /\ Advance /\ UNCHANGED <<arrays, maps>>

\* WithCache that can switch the cache on but not off
WithCacheOnlySets ==
    /\ AtOption("WithCache")
    /\ query' = [query EXCEPT !.useCache = query.useCache \/ qopts[i].arg]
    /\ Advance /\ UNCHANGED <<arrays, maps>>

WithCache ==
    /\ AtOption("WithCache")
    /\ query' = [query EXCEPT !.useCache = qopts[i].arg]
    /\ Advance /\ UNCHANGED <<arrays, maps>>

WithAuthConfig ==
    /\ AtOption("WithAuthConfig")
    /\ query' = [query EXCEPT !.auths = qopts[i].arg]
    /\ Advance /\ UNCHANGED <<arrays, maps>>

WithAll ==
    /\ AtOption("WithAll")
    /\ query' = [query EXCEPT !.all = qopts[i].arg]
    /\ Advance /\ UNCHANGED <<arrays, maps>>

WithNoManifestPackage ==
    /\ AtOption("WithNoManifestPackage")
    /\ query' = [query EXCEPT !.noManifestPackage = qopts[i].arg]
    /\ Advance /\ UNCHANGED <<arrays, maps>>

WithNoOCIPackage ==
    /\ AtOption("WithNoOCIPackage")
    /\ query' = [query EXCEPT !.noOCIPackage = qopts[i].arg]
    /\ Advance /\ UNCHANGED <<arrays, maps>>

\* return &query: the descriptor is finalized, NewQuery's frame is gone
NewQueryReturn ==
    /\ LoopDone
    /\ built' = Append(built, query)
    /\ pc' = "idle"
    /\ qopts' = <<>>
    /\ i' = 0
    /\ query' = ZeroQuery
    /\ UNCHANGED <<held, arrays, maps, ret>>

ApplyOption ==
    \/ WithSource \/ WithTypes \/ WithName \/ WithVersion \/ WithCache
    \/ WithAuthConfig \/ WithAll \/ WithNoManifestPackage \/ WithNoOCIPackage

----------------------------------------------------------------------------
(* Calls of the methods of a finalized descriptor *)

Returns(k, m, v) ==
    /\ ret' = [k |-> k, m |-> m, v |-> v]
    /\ UNCHANGED <<pc, qopts, i, query, built, held, arrays, maps>>

Callable(k) == pc = "idle" /\ k \in 1..Len(built)

CallSource == \E k \in 1..MaxQueries : Callable(k) /\ Returns(k, "Source", Source(built[k]))
CallTypes == \E k \in 1..MaxQueries : Callable(k) /\ Returns(k, "Types", Types(built[k]))
CallName == \E k \in 1..MaxQueries : Callable(k) /\ Returns(k, "Name", Name(built[k]))
CallVersion == \E k \in 1..MaxQueries : Callable(k) /\ Returns(k, "Version", Version(built[k]))
CallUseCache == \E k \in 1..MaxQueries : Callable(k) /\ Returns(k, "UseCache", UseCache(built[k]))
CallAuths == \E k \in 1..MaxQueries : Callable(k) /\ Returns(k, "Auths", Auths(built[k]))
CallAll == \E k \in 1..MaxQueries : Callable(k) /\ Returns(k, "All", All(built[k]))
CallNoManifestPackage ==
    \E k \in 1..MaxQueries :
        Callable(k) /\ Returns(k, "NoManifestPackage", NoManifestPackage(built[k]))
CallNoOCIPackage ==
    \E k \in 1..MaxQueries :
        Callable(k) /\ Returns(k, "NoOCIPackage", NoOCIPackage(built[k]))
CallFields == \E k \in 1..MaxQueries : Callable(k) /\ Returns(k, "Fields", Fields(built[k]))
\* String() on a pointer receiver that stores the wildcard it renders
CallStringStoresWildcard ==
    \E k \in 1..MaxQueries :
        /\ Callable(k)
        /\ ret' = [k |-> k, m |-> "String", v |-> String(built[k], arrays)]
        /\ built' = [built EXCEPT ![k].name =
                        IF built[k].name = S_empty THEN <<"*">> ELSE built[k].name]
        /\ UNCHANGED <<pc, qopts, i, query, held, arrays, maps>>

CallString ==
    \E k \in 1..MaxQueries : Callable(k) /\ Returns(k, "String", String(built[k], arrays))

MethodCall ==
    \/ CallSource \/ CallTypes \/ CallName \/ CallVersion \/ CallUseCache
    \/ CallAuths \/ CallAll \/ CallNoManifestPackage \/ CallNoOCIPackage
    \/ CallFields \/ CallString

----------------------------------------------------------------------------
(* One call NewQuery(With...(..), ...) whose option values are temporaries *)

CallTemporaries ==
    /\ pc = "idle"
    /\ built = <<>>
    /\ \E opts \in SeqsUpTo(OptionPool, MaxOpts) : NewQueryCall(opts)
    /\ held' = <<>>

Next ==
    \/ CallTemporaries
    \/ WithSource \/ WithTypes \/ WithName \/ WithVersion \/ WithCache
    \/ WithAuthConfig \/ WithAll \/ WithNoManifestPackage \/ WithNoOCIPackage
    \/ NewQueryReturn
    \/ CallSource \/ CallTypes \/ CallName \/ CallVersion \/ CallUseCache
    \/ CallAuths \/ CallAll \/ CallNoManifestPackage \/ CallNoOCIPackage
    \/ CallFields \/ CallString

Spec == Init /\ [][Next]_vars

----------------------------------------------------------------------------
(* Reading a descriptor and an option sequence *)

OptionNames ==
    {"WithSource", "WithTypes", "WithName", "WithVersion", "WithCache",
     "WithAuthConfig", "WithAll", "WithNoManifestPackage", "WithNoOCIPackage"}

\* the accessor of field f
Accessor(f, q) ==
    CASE f = "source" -> Source(q)
      [] f = "types" -> Types(q)
      [] f = "name" -> Name(q)
      [] f = "version" -> Version(q)
      [] f = "useCache" -> UseCache(q)
      [] f = "auths" -> Auths(q)
      [] f = "all" -> All(q)
      [] f = "noManifestPackage" -> NoManifestPackage(q)
      [] f = "noOCIPackage" -> NoOCIPackage(q)

\* the zero value of field f: "", false, nil slice, nil map
ZeroOf(f) ==
    CASE f \in {"source", "name", "version"} -> S_empty
      [] f \in {"useCache", "all", "noManifestPackage", "noOCIPackage"} -> FALSE
      [] f = "types" -> NilSlice
      [] f = "auths" -> NilMap

\* the positions of opts whose option assigns field f
Targeting(opts, f) == {j \in 1..Len(opts) : Target(opts[j].opt) = f}

MaxOf(S) == CHOOSE x \in S : \A y \in S : y <= x

\* the argument of the last option of opts that assigns f, else f's zero value
LastArg(opts, f) ==
    IF Targeting(opts, f) = {} THEN ZeroOf(f)
    ELSE opts[MaxOf(Targeting(opts, f))].arg

\* C1: every accessor of the descriptor NewQuery returns gives the argument of
\* the last option of the call that targets its field, and the zero value when
\* no option targets it (so WithTypes replaces an earlier list).
C1_LastOptionWins ==
    [][NewQueryReturn =>
          /\ Len(built') = Len(built) + 1
          /\ \A f \in FieldNames :
                Accessor(f, built'[Len(built')]) = LastArg(qopts, f)]_vars

\* the loop has applied two options on types, the second with another list
C1_Witness ==
    /\ LoopDone
    /\ Len(qopts) = 3
    /\ qopts[1].opt = "WithTypes" /\ qopts[1].arg = [arr |-> 1, len |-> 2]
    /\ qopts[2].opt = "WithName"
    /\ qopts[3].opt = "WithTypes" /\ qopts[3].arg = [arr |-> 1, len |-> 1]
    /\ Types(query) = [arr |-> 1, len |-> 1]
    /\ Source(query) = S_empty

\* C3: an option applied to the descriptor under construction changes only the
\* field it targets; the other eight fields, the built descriptors and the
\* heap stay as they are.
C3_OptionFrame ==
    [][\A o \in OptionNames :
          AtOption(o) =>
              /\ \A f \in FieldNames \ {Target(o)} : query'[f] = query[f]
              /\ query'[Target(o)] = qopts[i].arg
              /\ built' = built /\ arrays' = arrays /\ maps' = maps]_vars

\* WithVersion has run on a descriptor whose name and cache flag were set
C3_Witness ==
    /\ pc = "loop" /\ i = 4
    /\ qopts[1].opt = "WithName" /\ qopts[2].opt = "WithCache"
    /\ qopts[3].opt = "WithVersion"
    /\ query.name = S_foo /\ query.useCache /\ query.version = S_v10

----------------------------------------------------------------------------
(* The rendering as the specification words it *)

RECURSIVE JoinFirst(_, _)
\* the first n type tags, a comma and a space between each two
JoinFirst(ts, n) ==
    IF n = 0 THEN <<>>
    ELSE IF n = 1 THEN ts[1]
    ELSE JoinFirst(ts, n - 1) \o <<",", " ">> \o ts[n]

TypeSegment(ts) ==
    CASE Len(ts) = 0 -> <<>>
      [] Len(ts) = 1 -> ts[1] \o <<"-">>
      [] Len(ts) > 1 -> <<"{">> \o JoinFirst(ts, Len(ts)) \o <<"}">> \o <<"-">>

NameSegment(n) == IF n # S_empty THEN n ELSE <<"*">>
VersionSegment(v) == IF v # S_empty THEN <<":">> \o v ELSE <<>>

Rendering(ts, n, v) == TypeSegment(ts) \o NameSegment(n) \o VersionSegment(v)

\* C4: String() is the type segment, then the name segment, then the version
\* segment; no types and no name or version give "*", [lib, app] and no name
\* give "{lib, app}-*", [lib], foo, 1.0 give "lib-foo:1.0".
C4_StringRendering ==
    ret.m = "String" =>
        LET q == built[ret.k]
            ts == View(q.types, arrays)
        IN  /\ ret.v = Rendering(ts, q.name, q.version)
            /\ (ts = <<>> /\ q.name = S_empty /\ q.version = S_empty)
                  => ret.v = <<"*">>
            /\ (ts = <<S_lib, S_app>> /\ q.name = S_empty /\ q.version = S_empty)
                  => ret.v = <<"{", "l", "i", "b", ",", " ", "a", "p", "p", "}", "-", "*">>
            /\ (ts = <<S_lib>> /\ q.name = S_foo /\ q.version = S_v10)
                  => ret.v = <<"l", "i", "b", "-", "f", "o", "o", ":", "1", ".", "0">>

\* String() has rendered a descriptor with one type, a name and a version
C4_Witness ==
    /\ ret.m = "String"
    /\ View(built[ret.k].types, arrays) = <<S_lib>>
    /\ built[ret.k].name = S_foo
    /\ built[ret.k].version = S_v10

\* String() has rendered a descriptor with more than one type
C4_WitnessMany ==
    /\ ret.m = "String"
    /\ Len(View(built[ret.k].types, arrays)) > 1

----------------------------------------------------------------------------
(* Fields() *)

FieldKeys == {"name", "version", "source", "types", "cache", "auth"}

\* C7: Fields() has exactly the keys name, version, source, types, cache and
\* auth, and its auth value is a boolean that is true iff the last auth option
\* of the call gave a non-nil mapping: true for a present but empty mapping,
\* false for nil and when no auth option was applied.
C7_FieldsAuth ==
    /\ LoopDone =>
          /\ DOMAIN Fields(query) = FieldKeys
          /\ Fields(query).auth \in BOOLEAN
          /\ Fields(query).auth = (LastArg(qopts, "auths") # NilMap)
          /\ Targeting(qopts, "auths") = {} => Fields(query).auth = FALSE
          /\ \A j \in Targeting(qopts, "auths") :
                j = MaxOf(Targeting(qopts, "auths")) =>
                    /\ qopts[j].arg = NilMap => Fields(query).auth = FALSE
                    /\ (qopts[j].arg # NilMap /\ maps[qopts[j].arg] = EmptyMap)
                          => Fields(query).auth = TRUE
    /\ ret.m = "Fields" =>
          /\ DOMAIN ret.v = FieldKeys
          /\ ret.v.auth \in BOOLEAN
          /\ ret.v.auth = (Auths(built[ret.k]) # NilMap)

\* Fields() has reported auth for a descriptor holding an empty mapping
C7_Witness ==
    /\ ret.m = "Fields"
    /\ ret.v.auth = TRUE
    /\ Auths(built[ret.k]) # NilMap
    /\ maps[Auths(built[ret.k])] = EmptyMap

----------------------------------------------------------------------------
(* Immutability under method calls *)

\* C8: a call of any method of a finalized descriptor leaves every field of
\* every finalized descriptor (and the collections they refer to) as it was,
\* so reading with the same method again gives the same value.
C8_MethodsDoNotMutate ==
    [][MethodCall =>
          /\ built' = built /\ arrays' = arrays /\ maps' = maps
          /\ (ret.m = ret'.m /\ ret.k = ret'.k) => ret'.v = ret.v]_vars

\* String() has been called on a descriptor with an empty name
C8_Witness ==
    /\ ret.m = "String"
    /\ built[ret.k].name = S_empty
    /\ built[ret.k].useCache

----------------------------------------------------------------------------
(* Options with empty or zero arguments *)

\* the key of Fields() that shows field f, "" when none does
FieldsKeyOf(f) ==
    CASE f = "source" -> "source"
      [] f = "types" -> "types"
      [] f = "name" -> "name"
      [] f = "version" -> "version"
      [] f = "useCache" -> "cache"
      [] f = "auths" -> "auth"
      [] OTHER -> ""

\* through its accessor and through Fields(), field f of q reads as never set
ReadsAsUnset(f, q) ==
    /\ Accessor(f, q) = Accessor(f, ZeroQuery)
    /\ FieldsKeyOf(f) # "" => Fields(q)[FieldsKeyOf(f)] = Fields(ZeroQuery)[FieldsKeyOf(f)]

\* o's argument is empty or zero: "", false, no type tags, an empty or nil map
EmptyOrZeroArg(o) ==
    CASE o.opt \in {"WithSource", "WithName", "WithVersion"} -> o.arg = S_empty
      [] o.opt \in {"WithCache", "WithAll", "WithNoManifestPackage", "WithNoOCIPackage"}
            -> o.arg = FALSE
      [] o.opt = "WithTypes" -> o.arg.len = 0
      [] o.opt = "WithAuthConfig" -> (o.arg = NilMap \/ maps[o.arg] = EmptyMap)

\* o's argument is the zero value of its type: "", false, nil slice, nil map
ZeroValueArg(o) == o.arg = ZeroOf(Target(o.opt))

LastOption(opts, f) == opts[MaxOf(Targeting(opts, f))]

\* C9 as stated: an empty or zero argument (an empty mapping and an empty list
\* included) makes the field read as never set.
C9_EmptyArgResets ==
    LoopDone =>
        \A f \in FieldNames :
            (Targeting(qopts, f) # {} /\ EmptyOrZeroArg(LastOption(qopts, f)))
                => ReadsAsUnset(f, query)

\* C9 amended: every option can run whatever its argument, and an argument that
\* is the zero value of its type ("", false, WithTypes() without arguments,
\* a nil mapping) makes the field read as never set, whatever was set before.
C9_ZeroValueResets ==
    /\ (pc = "loop" /\ i <= Len(qopts)) => ENABLED ApplyOption
    /\ LoopDone =>
          \A f \in FieldNames :
              (Targeting(qopts, f) # {} /\ ZeroValueArg(LastOption(qopts, f)))
                  => ReadsAsUnset(f, query)

\* the cache flag and the auth mapping were set and then reset
C9_Witness ==
    /\ LoopDone
    /\ Len(qopts) = 3
    /\ qopts[1] = Opt("WithCache", TRUE)
    /\ qopts[2] = Opt("WithCache", FALSE)
    /\ qopts[3] = Opt("WithAuthConfig", NilMap)
    /\ ReadsAsUnset("useCache", query)

----------------------------------------------------------------------------
(* Rendering two finalized descriptors *)

\* every descriptor over the model's values
AllDescriptors ==
    [source : Sources, types : Slices, name : Names, version : Versions,
     useCache : BOOLEAN, auths : {NilMap, 2}, all : BOOLEAN,
     noManifestPackage : BOOLEAN, noOCIPackage : BOOLEAN]

\* the descriptors with only types, name and version set
PlainDescriptors ==
    {[ZeroQuery EXCEPT !.types = t, !.name = n, !.version = v] :
        t \in Slices, n \in Names, v \in Versions}

\* two descriptors that earlier NewQuery calls returned
InitStr ==
    /\ pc = "idle"
    /\ qopts = <<>>
    /\ i = 0
    /\ query = ZeroQuery
    /\ \E a \in AllDescriptors, b \in PlainDescriptors : built = <<a, b>>
    /\ held = <<>>
    /\ arrays = InitArrays
    /\ maps = InitMaps
    /\ ret = [k |-> 0, m |-> "none", v |-> <<>>]

NextStr == CallString

SpecStr == InitStr /\ [][NextStr]_vars

\* a and b have the same type tags, name and version
Agree(a, b) ==
    /\ View(a.types, arrays) = View(b.types, arrays)
    /\ a.name = b.name
    /\ a.version = b.version

\* C5: descriptors that agree on types, name and version render the same
\* string whatever their other six fields are, and a string String() returned
\* is the one every agreeing descriptor (the same one included) renders.
C5_StringDependsOnThree ==
    /\ \A j, k \in 1..Len(built) :
          Agree(built[j], built[k])
              => String(built[j], arrays) = String(built[k], arrays)
    /\ ret.m = "String" =>
          \A k \in 1..Len(built) :
              Agree(built[k], built[ret.k]) => String(built[k], arrays) = ret.v

\* String() has rendered a descriptor that agrees with another one on types,
\* name and version and differs from it in the other fields
C5_Witness ==
    /\ ret.m = "String" /\ ret.k = 1
    /\ Agree(built[1], built[2])
    /\ built[1].source = S_src /\ built[1].useCache /\ built[1].auths # NilMap
    /\ built[1].all /\ built[1].noManifestPackage /\ built[1].noOCIPackage
    /\ built[2].source = S_empty /\ built[1].name = S_foo

\* zero types, exactly one type, more than one type
CardinalityClass(q) ==
    IF Len(View(q.types, arrays)) = 0 THEN "zero"
    ELSE IF Len(View(q.types, arrays)) = 1 THEN "one" ELSE "many"

\* C6: two descriptors whose type lists differ in cardinality class never
\* render to the same string, for any names and versions.
C6_CardinalityDisambiguated ==
    \A j, k \in 1..Len(built) :
        CardinalityClass(built[j]) # CardinalityClass(built[k])
            => String(built[j], arrays) # String(built[k], arrays)

----------------------------------------------------------------------------
(* NewQuery again with the same option values in another order *)

PermPool ==
    {Opt("WithSource", S_src), Opt("WithName", S_foo),
     Opt("WithVersion", S_v10), Opt("WithCache", TRUE),
     Opt("WithAuthConfig", 2), Opt("WithAuthConfig", NilMap),
     Opt("WithAll", TRUE), Opt("WithNoManifestPackage", TRUE),
     Opt("WithNoOCIPackage", TRUE)}
    \cup {Opt("WithTypes", [arr |-> 1, len |-> n]) : n \in 1..MaxTypes}

\* the permutations of 1..n
Perms(n) == {p \in [1..n -> 1..n] : \A a, b \in 1..n : a # b => p[a] # p[b]}

\* the first call: the caller keeps the option values it passes
CallHeld(pool, n) ==
    /\ pc = "idle"
    /\ built = <<>>
    /\ \E opts \in SeqsUpTo(pool, n) : NewQueryCall(opts) /\ held' = opts

CallHeldPerm == CallHeld(PermPool, MaxPermOpts)

\* a later call with the held option values in any order
CallPermuted ==
    /\ pc = "idle"
    /\ built # <<>>
    /\ Len(built) < MaxQueries
    /\ \E p \in Perms(Len(held)) :
          NewQueryCall([j \in 1..Len(held) |-> held[p[j]]])
    /\ UNCHANGED held

NextPerm ==
    \/ CallHeldPerm
    \/ CallPermuted
    \/ WithSource \/ WithTypes \/ WithName \/ WithVersion \/ WithCache
    \/ WithAuthConfig \/ WithAll \/ WithNoManifestPackage \/ WithNoOCIPackage
    \/ NewQueryReturn

SpecPerm == Init /\ [][NextPerm]_vars

\* no two options of opts assign the same field
DistinctTargets(opts) ==
    \A a, b \in 1..Len(opts) : a # b => Target(opts[a].opt) # Target(opts[b].opt)

\* C2: when no two options assign the same field, every order of them gives a
\* descriptor with the same nine fields; when two options assign the same
\* field with different arguments, each order gives the argument of the option
\* applied last, so swapping the two changes the result.
C2_Commutes ==
    /\ DistinctTargets(held) =>
          /\ \A j, k \in 1..Len(built) : built[j] = built[k]
          /\ (LoopDone /\ built # <<>>) => query = built[1]
    /\ (LoopDone /\ built # <<>> /\ Len(held) = 2) =>
          LET x == held[1]
              y == held[2]
          IN  (x.opt = y.opt /\ x.arg # y.arg /\ qopts = <<y, x>>) =>
                  /\ built[1][Target(x.opt)] = y.arg
                  /\ query[Target(x.opt)] = x.arg
                  /\ query # built[1]

\* three options on three fields were applied in reversed order
C2_Witness ==
    /\ LoopDone
    /\ Len(built) = 1
    /\ Len(held) = 3
    /\ DistinctTargets(held)
    /\ qopts = <<held[3], held[2], held[1]>>
    /\ held[1].opt = "WithTypes" /\ held[2].opt = "WithAuthConfig"
    /\ query = built[1]

\* two options on the auth mapping were applied in swapped order
C2_WitnessSwap ==
    /\ LoopDone
    /\ Len(built) = 1
    /\ held = <<Opt("WithAuthConfig", 2), Opt("WithAuthConfig", NilMap)>>
    /\ qopts = <<held[2], held[1]>>
    /\ query.auths = 2 /\ built[1].auths = NilMap

----------------------------------------------------------------------------
(* The caller changes the collections it passed in or was handed back *)

AliasPool ==
    {Opt("WithTypes", [arr |-> 1, len |-> n]) : n \in 1..MaxTypes}
    \cup {Opt("WithAuthConfig", 1), Opt("WithName", S_foo), Opt("WithCache", TRUE)}

CallHeldAlias == CallHeld(AliasPool, MaxAliasOpts)

\* the arrays the caller has a slice of: passed to WithTypes or got from Types()
CallerArrays ==
    ({held[j].arg.arr : j \in Targeting(held, "types")}
        \cup {Types(built[k]).arr : k \in 1..Len(built)}) \ {0}

\* the maps the caller has: passed to WithAuthConfig or got from Auths()
CallerMaps ==
    ({held[j].arg : j \in Targeting(held, "auths")}
        \cup {Auths(built[k]) : k \in 1..Len(built)}) \ {NilMap}

\* s[j] = t on a slice the caller has
SetElement ==
    /\ pc = "idle"
    /\ \E a \in CallerArrays, j \in 1..MaxTypes, t \in TypeTags :
          arrays' = [arrays EXCEPT ![a][j] = t]
    /\ UNCHANGED <<pc, qopts, i, query, built, held, maps, ret>>

\* m[d] = c on a map the caller has
MapPut ==
    /\ pc = "idle"
    /\ \E m \in CallerMaps, d \in Domains, c \in Creds :
          maps' = [maps EXCEPT ![m] = {e \in maps[m] : e[1] # d} \cup {<<d, c>>}]
    /\ UNCHANGED <<pc, qopts, i, query, built, held, arrays, ret>>

\* delete(m, d) on a map the caller has
MapDelete ==
    /\ pc = "idle"
    /\ \E m \in CallerMaps, d \in Domains :
          maps' = [maps EXCEPT ![m] = {e \in maps[m] : e[1] # d}]
    /\ UNCHANGED <<pc, qopts, i, query, built, held, arrays, ret>>

\* a later call with the held option values as they are
CallAgain ==
    /\ pc = "idle"
    /\ built # <<>>
    /\ Len(built) < MaxQueries
    /\ NewQueryCall(held)
    /\ UNCHANGED held

NextAlias ==
    \/ CallHeldAlias
    \/ CallAgain
    \/ WithTypes \/ WithName \/ WithCache \/ WithAuthConfig
    \/ NewQueryReturn
    \/ SetElement \/ MapPut \/ MapDelete
    \/ CallTypes \/ CallAuths \/ CallString

SpecAlias == Init /\ [][NextAlias]_vars

ScalarFields == FieldNames \ {"types", "auths"}

\* what the caller's own slice and mapping show now is what every descriptor
\* built from the held options shows
SharesCollections ==
    \A k \in 1..Len(built) :
        /\ View(Types(built[k]), arrays) = View(LastArg(held, "types"), arrays)
        /\ Auths(built[k]) = LastArg(held, "auths")
        /\ String(built[k], arrays)
              = Rendering(View(LastArg(held, "types"), arrays),
                          LastArg(held, "name"), LastArg(held, "version"))

\* C10: the descriptors keep the caller's slice and mapping by reference, so
\* after any change the caller makes to them every descriptor built from the
\* same option values shows the changed contents through Types(), Auths() and
\* String(); no step changes a scalar field of a finalized descriptor.
C10_Aliasing ==
    /\ [](SharesCollections)
    /\ [][\A k \in 1..Len(built) :
             /\ k <= Len(built')
             /\ \A f \in ScalarFields : built'[k][f] = built[k][f]
             /\ Types(built'[k]) = Types(built[k])
             /\ Auths(built'[k]) = Auths(built[k])]_vars
    /\ [][CallString => ret'.v = Rendering(View(LastArg(held, "types"), arrays),
                                           LastArg(held, "name"),
                                           LastArg(held, "version"))]_vars

\* two descriptors share the caller's slice and mapping, the caller has changed
\* both, and String() has rendered the changed type list
C10_Witness ==
    /\ pc = "idle"
    /\ Len(built) = 2
    /\ Types(built[1]) = [arr |-> 1, len |-> MaxTypes]
    /\ Types(built[2]) = Types(built[1])
    /\ Auths(built[1]) = 1 /\ Auths(built[2]) = 1
    /\ arrays[1][1] # InitArrays[1][1]
    /\ maps[1] # InitMaps[1]
    /\ ret.m = "String" /\ ret.k = 2
    /\ ret.v = String(built[2], arrays)

====
